---- MODULE Spec2Model ----
(***************************************************************************)
(* Model of autochain/models/chat_openai.py: the ChatOpenAI adapter.       *)
(* State: the process environment, the openai client module, one           *)
(* ChatOpenAI instance and the position of a generate call on it.          *)
(***************************************************************************)
EXTENDS Integers, Sequences, FiniteSets, TLC

VARIABLES environ, openai, inst, constructed, pc, args, pending,
          sent, reply, response, result, raised, trace, prev, remoteCalled

\* environ      os.environ, restricted to OPENAI_API_KEY
\* openai       the openai package: importable, its attributes, its api_key
\* inst         the ChatOpenAI instance (None until construction succeeds)
\* constructed  the instance as construction left it
\* pc           position of generate: "idle", "retry" (inside
\*              generate_with_retry), "respond" (it returned a response)
\* args         arguments of the generate call in progress, or of the call
\*              that raised last; None once a call returned
\* pending      the locals message_dicts and params of that call
\* sent         the requests this call sent to client.create
\* reply        what the remote endpoint answered to the last request
\* response     the local `response` of generate
\* result       the LLMResult the last call returned
\* raised       the exception the last operation raised, if any
\* trace        the steps of the last generate call, in order
\* prev         the stop argument of the last call that ended
\* remoteCalled whether any request was ever sent
vars == <<environ, openai, inst, constructed, pc, args, pending,
          sent, reply, response, result, raised, trace, prev, remoteCalled>>

\* ------------------------------------------------------------------ bounds
\* Longest message list passed to generate.
MaxMsgs == 2
\* Most choices in one response of the remote endpoint.
MaxChoices == 2
\* Longest stop list passed to generate.
MaxStop == 1

\* ------------------------------------------------------------ value domains
\* Python's Optional[T]: None is the empty tuple, a present value a 1-tuple.
None == <<>>
Some(x) == <<x>>

SeqsUpTo(S, n) == UNION {[1..k -> S] : k \in 0..n}

\* {**a, **b}: the keys of both, b's value where both have the key.
Merge(a, b) == [k \in DOMAIN a \cup DOMAIN b |-> IF k \in DOMAIN b THEN b[k] ELSE a[k]]

\* Message classes of autochain.agent.message and the contents used.
Messages == { [type |-> "SystemMessage", content |-> "be brief"],
              [type |-> "UserMessage", content |-> "hi"],
              [type |-> "AIMessage", content |-> "hi"] }
MessageLists == SeqsUpTo(Messages, MaxMsgs)

StopTokens == {"END"}
StopArgs == {None} \cup {Some(s) : s \in SeqsUpTo(StopTokens, MaxStop)}

\* Values of os.environ restricted to the key the adapter reads.
Environs == {<<>>, [OPENAI_API_KEY |-> "sk-env"]}

\* The installed openai package: not importable, too old to have
\* ChatCompletion, or current.
OpenAIModules ==
    { [importable |-> FALSE, attrs |-> {}, api_key |-> None],
      [importable |-> TRUE, attrs |-> {"Completion"}, api_key |-> None],
      [importable |-> TRUE, attrs |-> {"Completion", "ChatCompletion"}, api_key |-> None] }

\* The declared defaults of the fields of ChatOpenAI.
FieldDefaults ==
    [ client |-> None,
      model_name |-> "gpt-3.5-turbo",
      temperature |-> 0,
      model_kwargs |-> <<>>,
      openai_api_key |-> None,
      openai_organization |-> None,
      request_timeout |-> None,
      max_retries |-> 6,
      max_tokens |-> None ]

\* Constructor keyword arguments: the fields left out keep their defaults.
ModelKwargs == {<<>>, [stop |-> <<"STOP">>]}
CtorArgs ==
    { Merge(who, how) :
        who \in { [model_name |-> "gpt-3.5-turbo"],
                  [model_name |-> "gpt-4", openai_api_key |-> Some("sk-arg")] },
        how \in [model_kwargs : ModelKwargs, max_retries : {1, 2}] }

\* Responses of the remote endpoint.
ChoiceMessages == [role : {"assistant"}, content : {"yes", "no"}]
Choices == [message : ChoiceMessages]
Usages == { [prompt_tokens |-> 3, completion_tokens |-> 2, total_tokens |-> 5],
            [prompt_tokens |-> 1, completion_tokens |-> 0, total_tokens |-> 4] }
Responses == [choices : SeqsUpTo(Choices, MaxChoices), usage : Usages]

\* ---------------------------------------------------------------- errors
NoError == None
KeyErrorApiKey == [origin |-> "adapter", type |-> "KeyError", check |-> "credential", line |-> 67]
ValueErrorImport == [origin |-> "adapter", type |-> "ValueError", check |-> "import", line |-> 72]
ValueErrorChatCompletion == [origin |-> "adapter", type |-> "ValueError", check |-> "capability", line |-> 80]
ValueErrorStop == [origin |-> "adapter", type |-> "ValueError", check |-> "stop", line |-> 106]
ValueErrorEmpty == [origin |-> "adapter", type |-> "ValueError", check |-> "empty", line |-> 103]
ClientError == [origin |-> "client", type |-> "OpenAIError", check |-> "none", line |-> 97]

\* ------------------------------------------------- validate_environment
\* Mutant: the key is read with a default, so a missing key is not an error.
validate_environment_get(values, env, mod) ==
    LET key == IF "OPENAI_API_KEY" \in DOMAIN env THEN Some(env.OPENAI_API_KEY)
               ELSE values.openai_api_key
    IN  IF ~mod.importable
        THEN [raised |-> Some(ValueErrorImport), values |-> values, api_key |-> mod.api_key]
        ELSE IF "ChatCompletion" \notin mod.attrs
        THEN [raised |-> Some(ValueErrorChatCompletion), values |-> values, api_key |-> key]
        ELSE [raised |-> NoError,
              values |-> Merge(values, [client |-> Some("ChatCompletion")]),
              api_key |-> key]

\* Mutant: the AttributeError is swallowed and the client left unset.
validate_environment_swallow(values, env, mod) ==
    IF "OPENAI_API_KEY" \notin DOMAIN env
    THEN [raised |-> Some(KeyErrorApiKey), values |-> values, api_key |-> mod.api_key]
    ELSE IF ~mod.importable
    THEN [raised |-> Some(ValueErrorImport), values |-> values, api_key |-> mod.api_key]
    ELSE [raised |-> NoError,
          values |-> Merge(values, [client |->
                       IF "ChatCompletion" \in mod.attrs THEN Some("ChatCompletion") ELSE None]),
          api_key |-> Some(env.OPENAI_API_KEY)]

\* The root validator: reads the key from the environment, imports openai,
\* stores the key on the module, then takes openai.ChatCompletion as client.
validate_environment(values, env, mod) ==
    IF "OPENAI_API_KEY" \notin DOMAIN env
    THEN [raised |-> Some(KeyErrorApiKey), values |-> values, api_key |-> mod.api_key]
    ELSE IF ~mod.importable
    THEN [raised |-> Some(ValueErrorImport), values |-> values, api_key |-> mod.api_key]
    ELSE IF "ChatCompletion" \notin mod.attrs
    THEN [raised |-> Some(ValueErrorChatCompletion), values |-> values,
          api_key |-> Some(env.OPENAI_API_KEY)]
    ELSE [raised |-> NoError,
          values |-> Merge(values, [client |-> Some("ChatCompletion")]),
          api_key |-> Some(env.OPENAI_API_KEY)]

\* ------------------------------------------------------- base-class helpers
\* autochain.models.base.convert_message_to_dict: the role of the message's
\* class and its content.
RoleOf(type) ==
    CASE type = "UserMessage" -> "user"
      [] type = "AIMessage" -> "assistant"
      [] type = "SystemMessage" -> "system"

TypeOf(role) ==
    CASE role = "user" -> "UserMessage"
      [] role = "assistant" -> "AIMessage"
      [] role = "system" -> "SystemMessage"

convert_message_to_dict(m) == [role |-> RoleOf(m.type), content |-> m.content]

\* autochain.models.base.convert_dict_to_message: the message class of the
\* dict's role, with its content.
convert_dict_to_message(d) == [type |-> TypeOf(d.role), content |-> d.content]

\* BaseLanguageModel._default_params: the sampling fields of the instance,
\* overridden by model_kwargs.
_default_params(self) ==
    Merge([ request_timeout |-> self.request_timeout,
            max_tokens |-> self.max_tokens,
            temperature |-> self.temperature ],
          self.model_kwargs)

\* -------------------------------------------------- _create_message_dicts
Reverse(s) == [i \in 1..Len(s) |-> s[Len(s) + 1 - i]]

\* Mutant: the message dicts are collected in reverse order.
_create_message_dicts_reversed(self, messages, stop) ==
    LET params == Merge([model |-> self.model_name], _default_params(self))
        dicts == Reverse([i \in 1..Len(messages) |-> convert_message_to_dict(messages[i])])
    IN  IF stop # None /\ "stop" \in DOMAIN params
        THEN [raised |-> Some(ValueErrorStop), message_dicts |-> <<>>, params |-> params,
              self |-> self]
        ELSE [raised |-> NoError, message_dicts |-> dicts,
              params |-> IF stop # None THEN Merge(params, [stop |-> stop[1]]) ELSE params,
              self |-> self]

\* Mutant: `if stop:` instead of `if stop is not None:`.
_create_message_dicts_truthy(self, messages, stop) ==
    LET params == Merge([model |-> self.model_name], _default_params(self))
        dicts == [i \in 1..Len(messages) |-> convert_message_to_dict(messages[i])]
        given == stop # None /\ stop[1] # <<>>
    IN  IF given /\ "stop" \in DOMAIN params
        THEN [raised |-> Some(ValueErrorStop), message_dicts |-> <<>>, params |-> params,
              self |-> self]
        ELSE [raised |-> NoError, message_dicts |-> dicts,
              params |-> IF given THEN Merge(params, [stop |-> stop[1]]) ELSE params,
              self |-> self]

\* Mutant: the stop list is stored in self.model_kwargs instead of in the
\* call's own params dict.
_create_message_dicts_alias(self, messages, stop) ==
    LET params == Merge([model |-> self.model_name], _default_params(self))
        dicts == [i \in 1..Len(messages) |-> convert_message_to_dict(messages[i])]
    IN  IF stop # None /\ "stop" \in DOMAIN params
        THEN [raised |-> Some(ValueErrorStop), message_dicts |-> <<>>, params |-> params,
              self |-> self]
        ELSE [raised |-> NoError, message_dicts |-> dicts,
              params |-> IF stop # None THEN Merge(params, [stop |-> stop[1]]) ELSE params,
              self |-> IF stop # None
                       THEN [self EXCEPT !.model_kwargs = Merge(@, [stop |-> stop[1]])]
                       ELSE self]

\* Mutant: a caller's stop list replaces a default one, which is dropped
\* from self.model_kwargs.
_create_message_dicts_pop(self, messages, stop) ==
    LET params == Merge([model |-> self.model_name], _default_params(self))
        dicts == [i \in 1..Len(messages) |-> convert_message_to_dict(messages[i])]
    IN  [raised |-> NoError, message_dicts |-> dicts,
         params |-> IF stop # None THEN Merge(params, [stop |-> stop[1]]) ELSE params,
         self |-> IF stop # None
                  THEN [self EXCEPT !.model_kwargs =
                          [k \in DOMAIN @ \ {"stop"} |-> @[k]]]
                  ELSE self]

\* Mutant: an empty message list is rejected by the adapter.
_create_message_dicts_nonempty(self, messages, stop) ==
    LET params == Merge([model |-> self.model_name], _default_params(self))
        dicts == [i \in 1..Len(messages) |-> convert_message_to_dict(messages[i])]
    IN  IF stop # None /\ "stop" \in DOMAIN params
        THEN [raised |-> Some(ValueErrorStop), message_dicts |-> <<>>, params |-> params,
              self |-> self]
        ELSE IF messages = <<>>
        THEN [raised |-> Some(ValueErrorEmpty), message_dicts |-> <<>>, params |-> params,
              self |-> self]
        ELSE [raised |-> NoError, message_dicts |-> dicts,
              params |-> IF stop # None THEN Merge(params, [stop |-> stop[1]]) ELSE params,
              self |-> self]

\* params is a fresh dict of the model name and the default params; a stop
\* list given by the caller is added to it unless the defaults already hold
\* one, which raises; the messages are converted one by one, in order.
\* `self` is the instance after the call.
_create_message_dicts(self, messages, stop) ==
    LET params == Merge([model |-> self.model_name], _default_params(self))
        dicts == [i \in 1..Len(messages) |-> convert_message_to_dict(messages[i])]
    IN  IF stop # None /\ "stop" \in DOMAIN params
        THEN [raised |-> Some(ValueErrorStop), message_dicts |-> <<>>, params |-> params,
              self |-> self]
        ELSE [raised |-> NoError, message_dicts |-> dicts,
              params |-> IF stop # None THEN Merge(params, [stop |-> stop[1]]) ELSE params,
              self |-> self]

\* ----------------------------------------------------- _create_llm_result
\* Mutant: only the first choice is turned into a generation.
_create_llm_result_first(self, resp) ==
    [ generations |->
        [i \in 1..(IF Len(resp.choices) > 0 THEN 1 ELSE 0) |->
            [message |-> convert_dict_to_message(resp.choices[i].message)]],
      llm_output |-> [token_usage |-> resp.usage, model_name |-> self.model_name] ]

\* Mutant: the total is recomputed from the two partial counts.
_create_llm_result_recount(self, resp) ==
    [ generations |->
        [i \in 1..Len(resp.choices) |->
            [message |-> convert_dict_to_message(resp.choices[i].message)]],
      llm_output |->
        [token_usage |-> [resp.usage EXCEPT !.total_tokens =
                            resp.usage.prompt_tokens + resp.usage.completion_tokens],
         model_name |-> self.model_name] ]

\* One Generation per choice, in order; llm_output carries the response's
\* usage and the instance's model name.
_create_llm_result(self, resp) ==
    [ generations |->
        [i \in 1..Len(resp.choices) |->
            [message |-> convert_dict_to_message(resp.choices[i].message)]],
      llm_output |-> [token_usage |-> resp.usage, model_name |-> self.model_name] ]

\* ------------------------------------------------------------------ state
Init ==
    /\ environ \in Environs
    /\ openai \in OpenAIModules
    /\ inst = None
    /\ constructed = None
    /\ pc = "idle"
    /\ args = None
    /\ pending = None
    /\ sent = <<>>
    /\ reply = None
    /\ response = None
    /\ result = None
    /\ raised = NoError
    /\ trace = <<>>
    /\ prev = None
    /\ remoteCalled = FALSE

\* ChatOpenAI(**kwargs): the fields are filled from the arguments and the
\* declared defaults, then validate_environment runs; an error leaves no
\* instance.
Construct ==
    /\ inst = None
    /\ \E kwargs \in CtorArgs :
         LET v == validate_environment(Merge(FieldDefaults, kwargs), environ, openai)
         IN  /\ openai' = [openai EXCEPT !.api_key = v.api_key]
             /\ raised' = v.raised
             /\ inst' = IF v.raised = NoError THEN Some(v.values) ELSE None
             /\ constructed' = inst'
    /\ UNCHANGED <<environ, pc, args, pending, sent, reply, response, result, trace,
                   prev, remoteCalled>>

\* Mutant: generate_with_retry is handed the caller's messages instead of
\* the converted message dicts.
generate_begin_raw ==
    /\ inst # None
    /\ pc = "idle"
    /\ \E messages \in MessageLists, stop \in StopArgs :
         LET cmd == _create_message_dicts(inst[1], messages, stop)
         IN  /\ args' = Some([messages |-> messages, stop |-> stop])
             /\ inst' = Some(cmd.self)
             /\ raised' = cmd.raised
             /\ IF cmd.raised # NoError
                THEN /\ pc' = "idle"
                     /\ pending' = None
                     /\ trace' = <<"build">>
                     /\ prev' = Some(stop)
                ELSE /\ pc' = "retry"
                     /\ pending' = Some([messages |-> messages, params |-> cmd.params])
                     /\ trace' = <<"build", "invoke">>
                     /\ prev' = prev
    /\ sent' = <<>>
    /\ reply' = None
    /\ response' = None
    /\ result' = None
    /\ UNCHANGED <<environ, openai, constructed, remoteCalled>>

\* generate, up to the call of generate_with_retry: the payload is built
\* from the arguments; an error of _create_message_dicts ends the call,
\* otherwise generate_with_retry is entered with the payload.
generate_begin ==
    /\ inst # None
    /\ pc = "idle"
    /\ \E messages \in MessageLists, stop \in StopArgs :
         LET cmd == _create_message_dicts(inst[1], messages, stop)
         IN  /\ args' = Some([messages |-> messages, stop |-> stop])
             /\ inst' = Some(cmd.self)
             /\ raised' = cmd.raised
             /\ IF cmd.raised # NoError
                THEN /\ pc' = "idle"
                     /\ pending' = None
                     /\ trace' = <<"build">>
                     /\ prev' = Some(stop)
                ELSE /\ pc' = "retry"
                     /\ pending' = Some([messages |-> cmd.message_dicts, params |-> cmd.params])
                     /\ trace' = <<"build", "invoke">>
                     /\ prev' = prev
    /\ sent' = <<>>
    /\ reply' = None
    /\ response' = None
    /\ result' = None
    /\ UNCHANGED <<environ, openai, constructed, remoteCalled>>

\* generate_with_retry: one attempt sends the payload to client.create.
\* The endpoint answers with a response, which ends generate_with_retry.
attempt_ok ==
    /\ pc = "retry"
    /\ \E r \in Responses :
         /\ reply' = Some(r)
         /\ response' = Some(r)
    /\ sent' = Append(sent, pending[1])
    /\ trace' = Append(trace, "request")
    /\ remoteCalled' = TRUE
    /\ pc' = "respond"
    /\ UNCHANGED <<environ, openai, inst, constructed, args, pending, result, raised, prev>>

\* The attempt fails and the retry policy makes another one, while fewer
\* than max_retries attempts were made.
attempt_retry ==
    /\ pc = "retry"
    /\ Len(sent) + 1 < inst[1].max_retries
    /\ sent' = Append(sent, pending[1])
    /\ trace' = Append(trace, "request")
    /\ remoteCalled' = TRUE
    /\ UNCHANGED <<environ, openai, inst, constructed, pc, args, pending, reply, response,
                   result, raised, prev>>

\* The attempt fails and the client's error reaches the caller of generate.
attempt_raise ==
    /\ pc = "retry"
    /\ sent' = Append(sent, pending[1])
    /\ trace' = Append(trace, "request")
    /\ remoteCalled' = TRUE
    /\ raised' = Some(ClientError)
    /\ pc' = "idle"
    /\ prev' = Some(args[1].stop)
    /\ UNCHANGED <<environ, openai, inst, constructed, args, pending, reply, response,
                   result>>

\* generate, after generate_with_retry returned: the response is mapped to
\* the result, which is returned; the locals of the call are gone.
generate_return ==
    /\ pc = "respond"
    /\ result' = Some(_create_llm_result(inst[1], response[1]))
    /\ trace' = Append(trace, "map")
    /\ pc' = "idle"
    /\ prev' = Some(args[1].stop)
    /\ args' = None
    /\ pending' = None
    /\ response' = None
    /\ sent' = <<>>
    /\ UNCHANGED <<environ, openai, inst, constructed, reply, raised, remoteCalled>>

Next ==
    \/ Construct
    \/ generate_begin
    \/ attempt_ok
    \/ attempt_retry
    \/ attempt_raise
    \/ generate_return

Spec == Init /\ [][Next]_vars

\* ----------------------------------------------------------------- claims
\* The "request" events of a trace.
Requests(t) == {i \in 1..Len(t) : t[i] = "request"}

\* The params p carry the stop list s.
HasStop(p, s) == "stop" \in DOMAIN p /\ p.stop = s

\* The payload _create_message_dicts builds from the arguments of the call
\* in progress.
Built == _create_message_dicts(inst[1], args[1].messages, args[1].stop)

\* C1: with OPENAI_API_KEY absent from the environment, construction fails
\* in validate_environment with the KeyError of the lookup: there is no
\* instance, the openai module got no key, and no request was ever sent to
\* the remote client, whatever the constructor arguments.
C1_NoCredentialNoInstance ==
    ("OPENAI_API_KEY" \notin DOMAIN environ) =>
        /\ inst = None
        /\ constructed = None
        /\ pc = "idle"
        /\ ~remoteCalled
        /\ openai.api_key = None
        /\ raised \in {NoError, Some(KeyErrorApiKey)}

C1_Witness ==
    /\ "OPENAI_API_KEY" \notin DOMAIN environ
    /\ openai.importable /\ "ChatCompletion" \in openai.attrs
    /\ raised = Some(KeyErrorApiKey)

\* C2: with the credential present and an openai package without the
\* ChatCompletion attribute, construction fails with a ValueError raised by
\* validate_environment, so there is no instance to call generate on.
C2_MissingCapabilityFails ==
    ( /\ "OPENAI_API_KEY" \in DOMAIN environ
      /\ openai.importable
      /\ "ChatCompletion" \notin openai.attrs ) =>
        /\ inst = None
        /\ pc = "idle"
        /\ args = None
        /\ ~remoteCalled
        /\ raised \in {NoError, Some(ValueErrorChatCompletion)}
        /\ raised # NoError => raised[1].type = "ValueError"

C2_Witness ==
    /\ "OPENAI_API_KEY" \in DOMAIN environ
    /\ openai.importable
    /\ "ChatCompletion" \notin openai.attrs
    /\ raised = Some(ValueErrorChatCompletion)
    /\ inst = None

\* C3: the message dicts handed on by _create_message_dicts are as many as
\* the input messages, and the i-th one is the conversion of the i-th
\* message, with that message's role and content.
C3_MessageDictsInOrder ==
    pending # None =>
        LET m == args[1].messages
            d == pending[1].messages
        IN  /\ Len(d) = Len(m)
            /\ \A i \in 1..Len(m) :
                 /\ d[i] = convert_message_to_dict(m[i])
                 /\ d[i].role = RoleOf(m[i].type)
                 /\ d[i].content = m[i].content

C3_Witness ==
    /\ pending # None
    /\ Len(args[1].messages) = 2
    /\ args[1].messages[1] # args[1].messages[2]
    /\ pending[1].messages[1].role = "system"
    /\ pending[1].messages[2].role = "user"

\* C4: the result has one generation per choice of the response, in the
\* order of the choices, the i-th wrapping the message converted from the
\* i-th choice's message; no choices give no generations.
C4_OneGenerationPerChoice ==
    result # None =>
        LET g == result[1].generations
            c == reply[1].choices
        IN  /\ Len(g) = Len(c)
            /\ \A i \in 1..Len(c) :
                 g[i] = [message |-> convert_dict_to_message(c[i].message)]
            /\ (c = <<>>) => (g = <<>>)

C4_Witness ==
    /\ result # None
    /\ Len(reply[1].choices) = 2
    /\ reply[1].choices[1] # reply[1].choices[2]
    /\ Len(result[1].generations) = 2

\* C5: the result's llm_output["token_usage"] is the response's usage,
\* unchanged, whatever the number of choices.
C5_UsageVerbatim ==
    result # None => result[1].llm_output.token_usage = reply[1].usage

C5_Witness ==
    /\ result # None
    /\ reply[1].choices = <<>>
    /\ reply[1].usage.total_tokens #
         reply[1].usage.prompt_tokens + reply[1].usage.completion_tokens
    /\ result[1].llm_output.token_usage.total_tokens = reply[1].usage.total_tokens

C7_ConfigUnchanged ==
    inst # None =>
        /\ inst = constructed
        /\ inst[1].client = Some("ChatCompletion")

C7_Witness ==
    /\ inst # None
    /\ pc = "idle"
    /\ result # None
    /\ prev # None /\ prev[1] # None
    /\ "stop" \notin DOMAIN inst[1].model_kwargs

\* C8 as stated: the only errors raised by the adapter's own checks are the
\* missing credential and the missing client capability (the package or its
\* ChatCompletion attribute), both at validation time.
C8_OnlyValidationChecks ==
    (raised # NoError /\ raised[1].origin = "adapter") =>
        /\ raised[1].check \in {"credential", "import", "capability"}
        /\ inst = None

\* C8, amended: the adapter's own checks are the missing credential and the
\* missing client capability at validation time, and at generate time a
\* stop list given while the default params hold a stop; any other error
\* comes from the client, after a request was sent.
C8_ThreeChecks ==
    raised # NoError =>
        \/ /\ raised \in {Some(KeyErrorApiKey), Some(ValueErrorImport),
                          Some(ValueErrorChatCompletion)}
           /\ inst = None
        \/ /\ raised = Some(ValueErrorStop)
           /\ inst # None
           /\ args[1].stop # None
           /\ "stop" \in DOMAIN _default_params(inst[1])
           /\ sent = <<>>
        \/ /\ raised[1].origin = "client"
           /\ inst # None
           /\ sent # <<>>

C8_Witness ==
    /\ raised = Some(ValueErrorStop)
    /\ inst # None
    /\ ~remoteCalled

\* C9: a stop list given while the default params hold a stop raises the
\* ValueError before any request of the call; a stop list given otherwise
\* is the request's stop; without a stop list the request params are the
\* model name merged with the default params.
C9_StopHandling ==
    (inst # None /\ args # None) =>
        LET stop == args[1].stop
            defaults == _default_params(inst[1])
        IN  /\ (stop # None /\ "stop" \in DOMAIN defaults) =>
                 /\ raised = Some(ValueErrorStop)
                 /\ pc = "idle"
                 /\ pending = None
                 /\ sent = <<>>
                 /\ Requests(trace) = {}
            /\ (stop # None /\ "stop" \notin DOMAIN defaults) =>
                 /\ pending # None
                 /\ HasStop(pending[1].params, stop[1])
                 /\ raised # Some(ValueErrorStop)
                 /\ \A i \in 1..Len(sent) : HasStop(sent[i].params, stop[1])
            /\ (stop = None) =>
                 /\ pending # None
                 /\ pending[1].params = Merge([model |-> inst[1].model_name], defaults)
                 /\ DOMAIN pending[1].params = {"model"} \cup DOMAIN defaults
                 /\ \A i \in 1..Len(sent) : sent[i].params = pending[1].params

C9_Witness ==
    /\ inst # None
    /\ args # None
    /\ args[1].stop = Some(<<>>)
    /\ "stop" \in DOMAIN _default_params(inst[1])
    /\ raised = Some(ValueErrorStop)

\* C10: the stop of a request is the call's own stop list, or the one of
\* the params the instance was constructed with when the call gives none;
\* the stop list of an earlier call is in no later request and makes no
\* later call raise the "stop found in both" error.
C10_StopScopedToCall ==
    /\ pending # None =>
         LET p == pending[1].params
             kw == constructed[1].model_kwargs
         IN  IF args[1].stop # None
             THEN HasStop(p, args[1].stop[1])
             ELSE /\ ("stop" \in DOMAIN p) <=> ("stop" \in DOMAIN kw)
                  /\ ("stop" \in DOMAIN p) => (p.stop = kw.stop)
    /\ raised = Some(ValueErrorStop) =>
         /\ args[1].stop # None
         /\ "stop" \in DOMAIN constructed[1].model_kwargs

C10_Witness ==
    /\ pending # None
    /\ prev = Some(Some(<<"END">>))
    /\ args[1].stop = Some(<<>>)
    /\ pending[1].params.stop = <<>>
    /\ sent # <<>>

====
